---- MODULE Spec2Model ----
(***************************************************************************)
(* Model of game_agent.py: the heuristic evaluators, depth-limited minimax *)
(* and alpha-beta search, and CustomPlayer.get_move with its iterative     *)
(* deepening loop and Timeout handling.  The isolation.Board collaborator  *)
(* is modelled from its interface (knight-move Isolation).                 *)
(***************************************************************************)
EXTENDS Integers, Sequences, FiniteSets, TLC

\* ---------------------------------------------------------------- bounds
Width == 3
Height == 3
\* plies played on the board before get_move is called
MaxPlies == 2
\* cap on the iterative-deepening depth counter when the clock never expires
MaxDepth == 3
\* fixed search depths 1..MaxSearchDepth
MaxSearchDepth == 2
\* time functions reach the threshold after at most MaxTicks queries
MaxTicks == 6

\* ------------------------------------------------------------- constants
\* float("inf"); every finite heuristic value is far smaller in magnitude
Inf == 1000000
\* default of the timeout parameter
TIMER_THRESHOLD == 10

\* the element of a one-element set; binds the value of an expression
Only(S) == CHOOSE y \in S : TRUE

\* -------------------------------------------------- isolation.Board model
Players == {1, 2}
NOT_MOVED == <<>>
Sentinel == <<-1, -1>>

Cells == {<<r, c>> : r \in 0..(Height - 1), c \in 0..(Width - 1)}

Directions ==
  << <<-2, -1>>, <<-2, 1>>, <<-1, -2>>, <<-1, 2>>,
     <<1, -2>>, <<1, 2>>, <<2, -1>>, <<2, 1>> >>

\* a board: last move of each player, occupied cells, player to move
NewBoard == [last |-> <<NOT_MOVED, NOT_MOVED>>, blocked |-> {}, active |-> 1]

get_opponent(player) == 3 - player

inactive_player(game) == 3 - game.active

move_is_legal(game, m) == m \in Cells /\ m \notin game.blocked

\* column-major enumeration of the blank cells
get_blank_spaces(game) ==
  LET cell(k) == <<(k - 1) % Height, (k - 1) \div Height>>
      all == [k \in 1..(Width * Height) |-> cell(k)]
      blank(m) == m \notin game.blocked
  IN SelectSeq(all, blank)

get_moves(game, loc) ==
  IF loc = NOT_MOVED THEN get_blank_spaces(game)
  ELSE LET targets == [k \in 1..Len(Directions) |->
                         <<loc[1] + Directions[k][1], loc[2] + Directions[k][2]>>]
           ok(m) == move_is_legal(game, m)
       IN SelectSeq(targets, ok)

get_legal_moves(game, player) ==
  Only({get_moves(g, g.last[player]) : g \in {game}})

forecast_move(game, m) ==
  Only({[last |-> [g.last EXCEPT ![g.active] = to],
         blocked |-> g.blocked \cup {to},
         active |-> 3 - g.active] : g \in {game}, to \in {m}})

is_loser(game, player) ==
  player = game.active /\ Len(get_legal_moves(game, game.active)) = 0

is_winner(game, player) ==
  player = inactive_player(game) /\ Len(get_legal_moves(game, game.active)) = 0

utility(game, player) ==
  IF Len(get_legal_moves(game, game.active)) = 0
  THEN IF player = inactive_player(game) THEN Inf ELSE -Inf
  ELSE 0

\* ------------------------------------------------------------ evaluators
Abs(x) == IF x < 0 THEN -x ELSE x

Range(s) == {s[i] : i \in 1..Len(s)}

\* variant: the is_winner test is missing
attacking_score_no_winner(game, player) ==
  IF is_loser(game, player) THEN -Inf
  ELSE -Len(get_legal_moves(game, get_opponent(player)))

attacking_score(game, player) ==
  IF is_loser(game, player) THEN -Inf
  ELSE IF is_winner(game, player) THEN Inf
  ELSE -Len(get_legal_moves(game, get_opponent(player)))

RECURSIVE deeper_sum(_, _, _, _)
deeper_sum(game, player, moves, i) ==
  IF i > Len(moves) THEN 0
  ELSE Len(get_legal_moves(forecast_move(game, moves[i]), player))
       - Len(get_legal_moves(forecast_move(game, moves[i]), get_opponent(player)))
       + deeper_sum(game, player, moves, i + 1)

deeper_score(game, player) ==
  IF is_loser(game, player) THEN -Inf
  ELSE IF is_winner(game, player) THEN Inf
  ELSE Only({deeper_sum(game, player, moves, 1) :
               moves \in {get_legal_moves(game, player)}})

\* the value is kept as an integer number of twentieths:
\* 20 * (score - 0.1*|row - width/2| - 0.1*|col - height/2|)
custom_score(game, player) ==
  IF is_loser(game, player) THEN -Inf
  ELSE IF is_winner(game, player) THEN Inf
  ELSE LET loc == game.last[player]
           score == Len(get_legal_moves(game, player))
                    - Len(get_legal_moves(game, get_opponent(player)))
       IN 20 * score - Abs(2 * loc[1] - Width) - Abs(2 * loc[2] - Height)

ScoreFns == {"attacking_score", "deeper_score", "custom_score"}

score_of(fn, game, player) ==
  CASE fn = "attacking_score" -> attacking_score(game, player)
    [] fn = "deeper_score" -> deeper_score(game, player)
    [] fn = "custom_score" -> custom_score(game, player)

\* ------------------------------------------------------- time remaining
\* a time_left callable: the q-th query (q = 0, 1, ...) returns start - drain*q
time_left(tf, q) == tf.start - tf.drain * q

TimeFns ==
  {[start |-> s, drain |-> 1] :
      s \in (TIMER_THRESHOLD - 1)..(TIMER_THRESHOLD + MaxTicks - 1)}
  \cup {[start |-> TIMER_THRESHOLD, drain |-> 0]}

\* the value eventually falls below the threshold and stays there
Expires(tf) == tf.drain > 0 \/ tf.start < TIMER_THRESHOLD

\* ------------------------------------------------------------ the search
\* c = [q |-> time queries made so far, trace |-> events so far]; events:
\* "T" time check passed, "X" time check failed (Timeout raised),
\* "E" evaluator called, "F" forecast_move called by the search
Log(c, e) == [c EXCEPT !.trace = Append(@, e)]

Tick(c, e) == [q |-> c.q + 1, trace |-> Append(c.trace, e)]

\* a normal return of (score, move)
Return(score, move, c) ==
  [timeout |-> FALSE, score |-> score, move |-> move, partial |-> NOT_MOVED, c |-> c]

\* Timeout propagating out of a call; partial is the best_move local of the
\* outermost frame unwound so far (NOT_MOVED when that frame had none yet)
Raise(c) ==
  [timeout |-> TRUE, score |-> 0, move |-> NOT_MOVED, partial |-> NOT_MOVED, c |-> c]

\* variant: a leaf reports the "no legal moves" value of the docstring
leaf_move_sentinel(game) == Sentinel

\* the move a depth-0 or terminal node reports
leaf_move(game) == game.last[inactive_player(game)]

RECURSIVE minimax(_, _, _, _, _)
RECURSIVE minimax_loop(_, _, _, _, _, _, _, _, _)
RECURSIVE alphabeta(_, _, _, _, _, _, _)
RECURSIVE alphabeta_loop(_, _, _, _, _, _, _, _, _, _, _)

\* variant: the depth/terminal test comes before the time check
minimax_check_after_leaf(a, game, depth, maximizing_player, c) ==
  IF depth = 0 \/ utility(game, a.self) # 0
  THEN Return(score_of(a.score_fn, game, a.self), leaf_move(game), Log(c, "E"))
  ELSE IF time_left(a.tf, c.q) < TIMER_THRESHOLD
  THEN Raise(Tick(c, "X"))
  ELSE Only({minimax_loop(a, game, depth, maximizing_player, moves, 1,
                          IF maximizing_player THEN -Inf ELSE Inf, moves[1], cc) :
               moves \in {get_legal_moves(game, game.active)},
               cc \in {Tick(c, "T")}})

\* a = [self |-> the agent's player, score_fn |-> evaluator, tf |-> time_left]
minimax(a, game, depth, maximizing_player, c) ==
  IF time_left(a.tf, c.q) < TIMER_THRESHOLD
  THEN Raise(Tick(c, "X"))
  ELSE IF depth = 0 \/ utility(game, a.self) # 0
  THEN Return(score_of(a.score_fn, game, a.self),
              leaf_move(game),
              Log(Tick(c, "T"), "E"))
  ELSE Only({minimax_loop(a, game, depth, maximizing_player, moves, 1,
                          IF maximizing_player THEN -Inf ELSE Inf, moves[1], cc) :
               moves \in {get_legal_moves(game, game.active)},
               cc \in {Tick(c, "T")}})

\* variant: non-strict comparisons, so the last of several tied moves wins
minimax_loop_last_wins(a, game, depth, maximizing_player, moves, i, best_score, best_move, c) ==
  IF i > Len(moves) THEN Return(best_score, best_move, c)
  ELSE LET step(r) ==
             IF r.timeout THEN [r EXCEPT !.partial = best_move]
             ELSE IF maximizing_player
             THEN IF r.score >= best_score
                  THEN minimax_loop(a, game, depth, maximizing_player, moves, i + 1,
                                    r.score, moves[i], r.c)
                  ELSE minimax_loop(a, game, depth, maximizing_player, moves, i + 1,
                                    best_score, best_move, r.c)
             ELSE IF r.score <= best_score
                  THEN minimax_loop(a, game, depth, maximizing_player, moves, i + 1,
                                    r.score, moves[i], r.c)
                  ELSE minimax_loop(a, game, depth, maximizing_player, moves, i + 1,
                                    best_score, best_move, r.c)
       IN Only({step(r) : r \in {minimax(a, g, depth - 1, ~maximizing_player, cc) :
                                   g \in {forecast_move(game, moves[i])},
                                   cc \in {Log(c, "F")}}})

\* the for loop over game.get_legal_moves(), at its i-th move; step(r) is the
\* loop body after the recursive call returned or raised r
minimax_loop(a, game, depth, maximizing_player, moves, i, best_score, best_move, c) ==
  IF i > Len(moves) THEN Return(best_score, best_move, c)
  ELSE LET step(r) ==
             IF r.timeout THEN [r EXCEPT !.partial = best_move]
             ELSE IF maximizing_player
             THEN IF r.score > best_score
                  THEN minimax_loop(a, game, depth, maximizing_player, moves, i + 1,
                                    r.score, moves[i], r.c)
                  ELSE minimax_loop(a, game, depth, maximizing_player, moves, i + 1,
                                    best_score, best_move, r.c)
             ELSE IF r.score < best_score
                  THEN minimax_loop(a, game, depth, maximizing_player, moves, i + 1,
                                    r.score, moves[i], r.c)
                  ELSE minimax_loop(a, game, depth, maximizing_player, moves, i + 1,
                                    best_score, best_move, r.c)
       IN Only({step(r) : r \in {minimax(a, g, depth - 1, ~maximizing_player, cc) :
                                   g \in {forecast_move(game, moves[i])},
                                   cc \in {Log(c, "F")}}})

Max2(x, y) == IF x >= y THEN x ELSE y

Min2(x, y) == IF x <= y THEN x ELSE y

alphabeta(a, game, depth, alpha, beta, maximizing_player, c) ==
  IF time_left(a.tf, c.q) < TIMER_THRESHOLD
  THEN Raise(Tick(c, "X"))
  ELSE IF depth = 0 \/ utility(game, a.self) # 0
  THEN Return(score_of(a.score_fn, game, a.self),
              leaf_move(game),
              Log(Tick(c, "T"), "E"))
  ELSE Only({alphabeta_loop(a, game, depth, alpha, beta, maximizing_player,
                            moves, 1, IF maximizing_player THEN -Inf ELSE Inf,
                            moves[1], cc) :
               moves \in {get_legal_moves(game, game.active)},
               cc \in {Tick(c, "T")}})

\* variant: each layer tests its cut-off against the other bound
alphabeta_loop_wrong_bound(a, game, depth, alpha, beta, maximizing_player, moves, i, best_score, best_move, c) ==
  IF i > Len(moves) THEN Return(best_score, best_move, c)
  ELSE LET after(r, new_score, new_move) ==
             IF maximizing_player
             THEN IF new_score >= alpha THEN Return(new_score, new_move, r.c)
                  ELSE Only({alphabeta_loop(a, game, depth, al, beta,
                                            maximizing_player, moves, i + 1,
                                            new_score, new_move, r.c) :
                               al \in {Max2(alpha, new_score)}})
             ELSE IF new_score <= beta THEN Return(new_score, new_move, r.c)
                  ELSE Only({alphabeta_loop(a, game, depth, alpha, be,
                                            maximizing_player, moves, i + 1,
                                            new_score, new_move, r.c) :
                               be \in {Min2(beta, new_score)}})
           step(r) ==
             IF r.timeout THEN [r EXCEPT !.partial = best_move]
             ELSE IF (IF maximizing_player THEN r.score > best_score
                      ELSE r.score < best_score)
             THEN Only({after(r, s, m) : s \in {r.score}, m \in {moves[i]}})
             ELSE Only({after(r, s, m) : s \in {best_score}, m \in {best_move}})
       IN Only({step(r) : r \in {alphabeta(a, g, depth - 1, alpha, beta,
                                           ~maximizing_player, cc) :
                                   g \in {forecast_move(game, moves[i])},
                                   cc \in {Log(c, "F")}}})

\* the for loop over game.get_legal_moves(), at its i-th move; step(r) is the
\* update of best_score and best_move after the recursive call returned or
\* raised r, after(r, ..) the cut-off test and the update of alpha or beta
alphabeta_loop(a, game, depth, alpha, beta, maximizing_player, moves, i, best_score, best_move, c) ==
  IF i > Len(moves) THEN Return(best_score, best_move, c)
  ELSE LET after(r, new_score, new_move) ==
             IF maximizing_player
             THEN IF new_score >= beta THEN Return(new_score, new_move, r.c)
                  ELSE Only({alphabeta_loop(a, game, depth, al, beta,
                                            maximizing_player, moves, i + 1,
                                            new_score, new_move, r.c) :
                               al \in {Max2(alpha, new_score)}})
             ELSE IF new_score <= alpha THEN Return(new_score, new_move, r.c)
                  ELSE Only({alphabeta_loop(a, game, depth, alpha, be,
                                            maximizing_player, moves, i + 1,
                                            new_score, new_move, r.c) :
                               be \in {Min2(beta, new_score)}})
           step(r) ==
             IF r.timeout THEN [r EXCEPT !.partial = best_move]
             ELSE IF (IF maximizing_player THEN r.score > best_score
                      ELSE r.score < best_score)
             THEN Only({after(r, s, m) : s \in {r.score}, m \in {moves[i]}})
             ELSE Only({after(r, s, m) : s \in {best_score}, m \in {best_move}})
       IN Only({step(r) : r \in {alphabeta(a, g, depth - 1, alpha, beta,
                                           ~maximizing_player, cc) :
                                   g \in {forecast_move(game, moves[i])},
                                   cc \in {Log(c, "F")}}})

\* the call get_move makes for self.method at the given depth
search(a, m, game, d, c) ==
  IF m = "minimax" THEN minimax(a, game, d, TRUE, c)
  ELSE alphabeta(a, game, d, -Inf, Inf, TRUE, c)

\* ------------------------------------------------------------- the agent
VARIABLES
  game,         \* the board handed to get_move
  plies,        \* moves applied to the board so far
  iterative, method, score_fn, search_depth,   \* CustomPlayer configuration
  pc,           \* "idle", "search" (inside the try block) or "returned"
  self,         \* the agent's player, the active player at the call
  legal_moves,  \* get_move's legal_moves argument
  time_fn,      \* get_move's time_left argument
  best_move,    \* get_move's local best_move
  depth,        \* get_move's local depth (iterative) or search_depth (fixed)
  clock,        \* time_left queries made in this invocation
  trace,        \* events of this invocation, oldest first
  fallback,     \* the random.choice made before the try block, kept while
                \* best_move still holds it (NOT_MOVED once a search completed)
  last,         \* the last search that ran to completion
  aborted,      \* the search that raised Timeout
  ret           \* the value get_move returned

vars == <<game, plies, iterative, method, score_fn, search_depth, pc, self,
          legal_moves, time_fn, best_move, depth, clock, trace, fallback,
          last, aborted, ret>>

config == <<iterative, method, score_fn, search_depth>>

NoSearch == [done |-> FALSE, score |-> 0, move |-> NOT_MOVED, depth |-> 0, partial |-> NOT_MOVED]

\* the first move of the game: a corner, an edge cell or the cell diagonal
\* to the corner
FirstMoves == {<<0, 0>>, <<0, 1>>, <<1, 1>>}

Init ==
  /\ game = NewBoard
  /\ plies = 0
  /\ iterative \in BOOLEAN
  /\ method \in {"minimax", "alphabeta"}
  /\ score_fn \in ScoreFns
  /\ search_depth \in 1..MaxSearchDepth
  /\ (iterative => search_depth = 1)
  /\ pc = "idle"
  /\ self = 0
  /\ legal_moves = <<>>
  /\ time_fn = [start |-> 0, drain |-> 0]
  /\ best_move = NOT_MOVED
  /\ depth = 0
  /\ clock = 0
  /\ trace = <<>>
  /\ fallback = NOT_MOVED
  /\ last = NoSearch
  /\ aborted = NoSearch
  /\ ret = NOT_MOVED

\* Board.play applies a legal move of the active player between invocations
PlayMove ==
  /\ pc = "idle"
  /\ plies < MaxPlies
  /\ \E m \in Range(get_legal_moves(game, game.active)) :
       /\ plies = 0 => m \in FirstMoves
       /\ game' = forecast_move(game, m)
  /\ plies' = plies + 1
  /\ UNCHANGED <<config, pc, self, legal_moves, time_fn, best_move, depth, clock,
                 trace, fallback, last, aborted, ret>>

\* get_move up to the try block, called for the active player once both
\* players are on the board
GetMove ==
  /\ pc = "idle"
  /\ plies >= 2
  /\ \E tf \in TimeFns :
       LET lm == get_legal_moves(game, game.active)
       IN /\ time_fn' = tf
          /\ legal_moves' = lm
          /\ self' = game.active
          /\ IF Len(lm) = 0
             THEN /\ pc' = "returned"
                  /\ ret' = Sentinel
                  /\ UNCHANGED <<best_move, fallback, depth>>
             ELSE /\ \E k \in 1..Len(get_legal_moves(game, game.active)) :
                       /\ best_move' = get_legal_moves(game, game.active)[k]
                       /\ fallback' = get_legal_moves(game, game.active)[k]
                  /\ pc' = "search"
                  /\ depth' = IF iterative THEN 0 ELSE search_depth
                  /\ UNCHANGED ret
  /\ UNCHANGED <<game, plies, config, clock, trace, last, aborted>>

\* variant: the move the aborted search was holding is returned
on_timeout_partial(best, r) == IF r.partial # NOT_MOVED THEN r.partial ELSE best

\* the except Timeout clause: the value get_move returns
on_timeout(best, r) == best

Agent == [self |-> self, score_fn |-> score_fn, tf |-> time_fn]

Ctx == [q |-> clock, trace |-> trace]

\* variant: Timeout is swallowed inside the loop, which then starts over
SearchIter_swallow ==
  /\ pc = "search"
  /\ iterative
  /\ Expires(time_fn) \/ depth <= MaxDepth
  /\ \E r \in {search(Agent, method, game, depth, Ctx)} :
        IF r.timeout
        THEN UNCHANGED <<pc, ret, aborted, best_move, depth, last, clock, trace,
                         fallback>>
        ELSE /\ clock' = r.c.q
             /\ trace' = r.c.trace
             /\ best_move' = r.move
             /\ depth' = depth + 1
             /\ last' = [done |-> TRUE, score |-> r.score, move |-> r.move,
                         depth |-> depth, partial |-> NOT_MOVED]
             /\ fallback' = NOT_MOVED
             /\ UNCHANGED <<pc, ret, aborted>>
  /\ UNCHANGED <<game, plies, config, self, legal_moves, time_fn>>

\* variant: the loop stops once depth has passed search_depth
SearchIter_bounded ==
  /\ pc = "search"
  /\ iterative
  /\ Expires(time_fn) \/ depth <= MaxDepth
  /\ IF depth > search_depth
     THEN /\ pc' = "returned"
          /\ ret' = best_move
          /\ UNCHANGED <<clock, trace, aborted, best_move, depth, last, fallback>>
     ELSE \E r \in {search(Agent, method, game, depth, Ctx)} :
        /\ clock' = r.c.q
        /\ trace' = r.c.trace
        /\ IF r.timeout
           THEN /\ pc' = "returned"
                /\ ret' = on_timeout(best_move, r)
                /\ aborted' = [done |-> TRUE, score |-> 0, move |-> NOT_MOVED,
                               depth |-> depth, partial |-> r.partial]
                /\ UNCHANGED <<best_move, depth, last, fallback>>
           ELSE /\ best_move' = r.move
                /\ depth' = depth + 1
                /\ last' = [done |-> TRUE, score |-> r.score, move |-> r.move,
                            depth |-> depth, partial |-> NOT_MOVED]
                /\ fallback' = NOT_MOVED
                /\ UNCHANGED <<pc, ret, aborted>>
  /\ UNCHANGED <<game, plies, config, self, legal_moves, time_fn>>

\* one turn of the while True loop, or the except clause that ends it
SearchIter ==
  /\ pc = "search"
  /\ iterative
  /\ Expires(time_fn) \/ depth <= MaxDepth
  /\ \E r \in {search(Agent, method, game, depth, Ctx)} :
        /\ clock' = r.c.q
        /\ trace' = r.c.trace
        /\ IF r.timeout
           THEN /\ pc' = "returned"
                /\ ret' = on_timeout(best_move, r)
                /\ aborted' = [done |-> TRUE, score |-> 0, move |-> NOT_MOVED,
                               depth |-> depth, partial |-> r.partial]
                /\ UNCHANGED <<best_move, depth, last, fallback>>
           ELSE /\ best_move' = r.move
                /\ depth' = depth + 1
                /\ last' = [done |-> TRUE, score |-> r.score, move |-> r.move,
                            depth |-> depth, partial |-> NOT_MOVED]
                /\ fallback' = NOT_MOVED
                /\ UNCHANGED <<pc, ret, aborted>>
  /\ UNCHANGED <<game, plies, config, self, legal_moves, time_fn>>

\* the single fixed-depth search and the return that follows it
SearchFixed ==
  /\ pc = "search"
  /\ ~iterative
  /\ \E r \in {search(Agent, method, game, search_depth, Ctx)} :
        /\ clock' = r.c.q
        /\ trace' = r.c.trace
        /\ pc' = "returned"
        /\ IF r.timeout
           THEN /\ ret' = on_timeout(best_move, r)
                /\ aborted' = [done |-> TRUE, score |-> 0, move |-> NOT_MOVED,
                               depth |-> depth, partial |-> r.partial]
                /\ UNCHANGED <<best_move, last, fallback>>
           ELSE /\ best_move' = r.move
                /\ ret' = r.move
                /\ last' = [done |-> TRUE, score |-> r.score, move |-> r.move,
                            depth |-> depth, partial |-> NOT_MOVED]
                /\ fallback' = NOT_MOVED
                /\ UNCHANGED aborted
  /\ UNCHANGED <<game, plies, config, self, legal_moves, time_fn, depth>>

Next == PlayMove \/ GetMove \/ SearchIter \/ SearchFixed

Spec == Init /\ [][Next]_vars

\* a liveness specification: once inside the try block, get_move keeps
\* running; the agent is built with the default evaluator
LiveInit == Init /\ score_fn = "custom_score"

FairSpec ==
  LiveInit /\ [][Next]_vars /\ WF_vars(SearchIter) /\ WF_vars(SearchFixed)

\* ------------------------------------------------------------ properties
NeverFn == [start |-> TIMER_THRESHOLD, drain |-> 0]

\* the agent of this invocation with a clock that never reaches the threshold
Untimed == [self |-> self, score_fn |-> score_fn, tf |-> NeverFn]

C0 == [q |-> 0, trace |-> <<>>]

Called == pc # "idle"

\* C1: get_move called with the active player's non-empty legal moves returns
\* one of them.
C1_ReturnsLegalMove ==
  (pc = "returned" /\ Len(legal_moves) > 0) => ret \in Range(legal_moves)

\* C2: a completed root call alphabeta(game, depth, -inf, +inf, True) has the
\* score and the move of minimax(game, depth, True) run without time pressure.
C2_AlphaBetaEqualsMinimax ==
  (last.done /\ ~aborted.done /\ method = "alphabeta") =>
     LET m == minimax(Untimed, game, last.depth, TRUE, C0)
     IN m.score = last.score /\ m.move = last.move

\* a completed alpha-beta search of depth >= 2 that visited fewer nodes than
\* minimax does
C2_Witness ==
  /\ last.done /\ ~aborted.done /\ method = "alphabeta" /\ last.depth >= 2
  /\ alphabeta(Untimed, game, last.depth, -Inf, Inf, TRUE, C0).c.q
       < minimax(Untimed, game, last.depth, TRUE, C0).c.q

\* C3: after a cancellation get_move returns the move of the last search that
\* ran to completion: the depth d-1 result when depth d was aborted in
\* iterative mode, the fallback when no search completed or in fixed-depth mode.
C3_ReturnsLastCompleted ==
  (pc = "returned" /\ aborted.done) =>
     IF iterative /\ aborted.depth >= 1
     THEN /\ last.done /\ last.depth = aborted.depth - 1
          /\ ret = last.move
          /\ ret = search(Untimed, method, game, aborted.depth - 1, C0).move
     ELSE ~last.done /\ ret = fallback

\* depth >= 2 was aborted while its root held a different candidate move
C3_Witness ==
  /\ pc = "returned" /\ aborted.done /\ iterative /\ aborted.depth >= 2
  /\ aborted.partial # NOT_MOVED /\ aborted.partial # ret

\* C4: every node checks the time first: an evaluator call directly follows a
\* passed check, a forecast is directly followed by the child's check, a
\* failed check is the last event of the invocation and ends it, and a clock
\* that is below the threshold at the first check gives no evaluation, no
\* forecast and the fallback move.
C4_TimeCheckFirst ==
  /\ \A i \in 1..Len(trace) :
       /\ trace[i] = "E" => (i > 1 /\ trace[i - 1] = "T")
       /\ trace[i] = "F" => (i < Len(trace) /\ trace[i + 1] \in {"T", "X"})
       /\ trace[i] = "X" => (i = Len(trace) /\ pc = "returned" /\ aborted.done)
  /\ Len(trace) > 0 => trace[1] \in {"T", "X"}
  /\ (pc = "returned" /\ Len(legal_moves) > 0
        /\ time_left(time_fn, 0) < TIMER_THRESHOLD) =>
       (trace = <<"X">> /\ ret = fallback)

\* a cancellation raised at a non-root node after some leaf was evaluated
C4_Witness ==
  /\ pc = "returned" /\ aborted.done /\ Len(trace) >= 4
  /\ trace[Len(trace)] = "X" /\ trace[Len(trace) - 1] = "F"
  /\ \E i \in 1..Len(trace) : trace[i] = "E"

\* C5: get_move returns (-1, -1) exactly when legal_moves is empty, and then
\* without any time query, evaluation or search.
C5_SentinelIffNoMoves ==
  pc = "returned" =>
     /\ (ret = Sentinel) <=> (Len(legal_moves) = 0)
     /\ Len(legal_moves) = 0 => (trace = <<>> /\ clock = 0 /\ ~last.done /\ ~aborted.done)

C5_Witness == pc = "returned" /\ Len(legal_moves) = 0 /\ ret = Sentinel

\* C6: with a clock that falls below the threshold and stays there, or in
\* fixed-depth mode, every invocation that entered the try block returns.
C6_EventuallyReturns ==
  (pc = "search" /\ (Expires(time_fn) \/ ~iterative)) ~> (pc = "returned")

\* an iterative invocation returned after completing at least two depths
C6_Witness ==
  pc = "returned" /\ iterative /\ Expires(time_fn) /\ aborted.done /\ aborted.depth >= 2

\* the scores minimax gives the children of a node, in enumeration order
ChildScores(g, d, maxi) ==
  LET moves == get_legal_moves(g, g.active)
  IN [i \in 1..Len(moves) |->
        minimax(Untimed, forecast_move(g, moves[i]), d - 1, ~maxi, C0).score]

\* (score, move) is the best child score and the earliest move attaining it
BestOfChildren(g, d, maxi, score, move) ==
  LET moves == get_legal_moves(g, g.active)
      cs == ChildScores(g, d, maxi)
  IN /\ \E i \in 1..Len(moves) :
          /\ cs[i] = score
          /\ moves[i] = move
          /\ \A j \in 1..(i - 1) : cs[j] # score
     /\ \A i \in 1..Len(moves) : IF maxi THEN cs[i] <= score ELSE cs[i] >= score

\* C7: a completed minimax search of depth >= 1 returns the maximum of its
\* children's scores and the earliest move attaining it, and each non-terminal
\* child searched to depth >= 1 returns the minimum of its children's scores
\* and the earliest move attaining it.
C7_MinimaxBestEarliest ==
  (last.done /\ ~aborted.done /\ method = "minimax" /\ last.depth >= 1) =>
     /\ BestOfChildren(game, last.depth, TRUE, last.score, last.move)
     /\ last.depth >= 2 =>
          \A m \in Range(get_legal_moves(game, game.active)) :
             LET g == forecast_move(game, m)
                 r == minimax(Untimed, g, last.depth - 1, FALSE, C0)
             IN utility(g, self) = 0 =>
                  BestOfChildren(g, last.depth - 1, FALSE, r.score, r.move)

\* two root moves tie for the best score
C7_Witness ==
  /\ last.done /\ ~aborted.done /\ method = "minimax" /\ last.depth >= 2
  /\ LET cs == ChildScores(game, last.depth, TRUE)
     IN \E i, j \in 1..Len(cs) : i < j /\ cs[i] = last.score /\ cs[j] = last.score
                                  /\ Abs(last.score) < Inf

\* the boards an evaluator is asked about: the board and its successors
Boards == {game} \cup {forecast_move(game, m) : m \in Range(get_legal_moves(game, game.active))}

\* C8: each evaluator gives -inf to a player who has lost, +inf to a player
\* who has won and a finite value otherwise; when the active player has no
\* legal move and the opponent has one, attacking_score is -inf for the active
\* player and +inf for the opponent.
C8_TerminalScores ==
  (pc = "idle" /\ plies >= 2) =>
     \A g \in Boards :
        /\ \A fn \in ScoreFns, p \in Players :
             LET v == score_of(fn, g, p)
             IN /\ is_loser(g, p) => v = -Inf
                /\ is_winner(g, p) => v = Inf
                /\ (~is_loser(g, p) /\ ~is_winner(g, p)) => (-Inf < v /\ v < Inf)
        /\ (Len(get_legal_moves(g, g.active)) = 0
              /\ Len(get_legal_moves(g, inactive_player(g))) > 0) =>
             /\ attacking_score(g, g.active) = -Inf
             /\ attacking_score(g, inactive_player(g)) = Inf

C8_Witness ==
  /\ pc = "idle" /\ plies >= 2
  /\ Len(get_legal_moves(game, game.active)) = 0
  /\ Len(get_legal_moves(game, inactive_player(game))) > 0

\* the board after player p, on turn or not, moves to m
MoveBy(g, p, m) ==
  [last |-> [g.last EXCEPT ![p] = m], blocked |-> g.blocked \cup {m},
   active |-> get_opponent(p)]

RECURSIVE SumOver(_, _, _, _)
SumOver(g, p, moves, i) ==
  IF i > Len(moves) THEN 0
  ELSE Len(get_legal_moves(MoveBy(g, p, moves[i]), p))
       - Len(get_legal_moves(MoveBy(g, p, moves[i]), get_opponent(p)))
       + SumOver(g, p, moves, i + 1)

\* C9: on a non-terminal board deeper_score(game, player) is the sum, over
\* player's legal moves m, of player's minus the opponent's legal-move count
\* after player moves to m, for the active and for the inactive player.
C9_DeeperScoreOwnMoves ==
  (pc = "search" /\ score_fn = "deeper_score") =>
     \A g \in Boards, p \in Players :
        utility(g, self) = 0 =>
           deeper_score(g, p) = SumOver(g, p, get_legal_moves(g, p), 1)

\* C10: in iterative mode a return follows a failed time check, the depth
\* counter is the number of completed searches, and with a clock that never
\* falls below the threshold get_move does not return.
C10_IterativeLeavesOnlyByTimeout ==
  (iterative /\ Called /\ Len(legal_moves) > 0) =>
     /\ pc = "returned" =>
          /\ aborted.done /\ clock > 0
          /\ trace[Len(trace)] = "X"
          /\ time_left(time_fn, clock - 1) < TIMER_THRESHOLD
     /\ ~Expires(time_fn) => pc = "search"
     /\ pc = "search" => depth = (IF last.done THEN last.depth + 1 ELSE 0)
     /\ pc = "returned" => aborted.depth = (IF last.done THEN last.depth + 1 ELSE 0)

\* the clock never expires and the last completed depth added no node to the
\* one before it: the counter has passed the height of the game tree
C10_Witness ==
  /\ iterative /\ pc = "search" /\ ~Expires(time_fn) /\ last.done /\ last.depth >= 2
  /\ depth = last.depth + 1
  /\ minimax(Untimed, game, last.depth, TRUE, C0).c.q
       = minimax(Untimed, game, last.depth - 1, TRUE, C0).c.q

====
